---- MODULE Spec2Model ----
(***************************************************************************)
(* Model of the k6 test scripts of k6-zap-perfsec-automation: the          *)
(* end-of-test summary handlers of k6/smoke.js, k6/load.js and             *)
(* k6/stress.js, the iteration function of k6/stress.js run by several     *)
(* virtual users, the checks of k6/smoke.js and k6/load.js, the stage      *)
(* profiles of options.stages, and the pipeline script run-all-tests.sh of *)
(* docs/setup.md.  The k6 runtime (VU scheduling, sample aggregation,      *)
(* percentile computation, threshold evaluation, exit code) is a           *)
(* third-party tool and is not part of the repository: the model takes the *)
(* summary data it hands to handleSummary, the responses and the           *)
(* completion order of the HTTP calls, and the exit codes as inputs.       *)
(*                                                                         *)
(* Units: durations are milliseconds; a rate is the exact fraction         *)
(* num/den of two sample counts, compared with the decimal literals of the *)
(* scripts by cross-multiplication (0.05 = 5/100).                         *)
(***************************************************************************)
EXTENDS Integers, Sequences, FiniteSets

VARIABLES test, phase, data, lines, overall, advice, vu, metrics, builtin,
          ramp, pipe

vars ==
    <<test, phase, data, lines, overall, advice, vu, metrics, builtin, ramp,
      pipe>>

\* ---------------------------------------------------------------- bounds
\* Largest number of HTTP requests in the summary data.
MaxReqs == 40

\* Largest number of check results in the summary data.
MaxChecks == 20

\* Number of iterations each virtual user runs (__ITER = 0 .. MaxIters - 1).
MaxIters == 2

\* ------------------------------------------------------- JavaScript values
\* NaN, as a number that is none of the measured values; every ordering
\* comparison with it is false.
NaN == 0 - 1

\* What the summary data carries for a metric that received no sample.
EmptyValues == {0, NaN}

\* a < b on JavaScript numbers.
JsLt(a, b) == a # NaN /\ b # NaN /\ a < b

\* The rate num/den; den = 0 stands for NaN.
RateOf(n, total, e) ==
    IF total > 0 THEN [num |-> n, den |-> total]
    ELSE IF e = NaN THEN [num |-> 0, den |-> 0]
    ELSE [num |-> e, den |-> 1]

\* r < pn/pd on JavaScript numbers.
JsRateLt(r, pn, pd) == r.den # 0 /\ r.num * pd < pn * r.den

\* r > pn/pd on JavaScript numbers.
JsRateGt(r, pn, pd) == r.den # 0 /\ r.num * pd > pn * r.den

\* ------------------------------------------------------------ summary data
Tests == {"smoke", "load", "stress"}

\* Response times around the limits the scripts compare with.
DurationValues == {399, 400, 799, 800, 1499, 1500}

\* Sample counts: none, one, many.
ReqCounts == {0, 1, MaxReqs}

CheckCounts == {0, 1, MaxChecks}

\* The metrics of the summary data on all requests: http_reqs.count,
\* the failed requests behind http_req_failed.rate, the percentiles of
\* http_req_duration, checks.passes and checks.fails.
RequestData ==
    { d \in [reqs : ReqCounts, failed : 0..MaxReqs,
             p95 : DurationValues \cup EmptyValues,
             p99 : DurationValues \cup EmptyValues,
             passes : 0..MaxChecks, fails : 0..MaxChecks,
             empty : EmptyValues] :
        /\ d.failed <= d.reqs
        /\ d.passes + d.fails \in CheckCounts
        /\ IF d.reqs = 0
           THEN d.p95 = d.empty /\ d.p99 = d.empty
           ELSE d.p95 \in DurationValues /\ d.p99 \in DurationValues
                /\ d.p95 <= d.p99
        /\ (d.reqs > 0 /\ d.passes + d.fails > 0) => d.empty = 0 }

\* p(99) of the sub-metric http_req_duration{expected_response:true}, which
\* holds the durations of the requests that did not fail: empty when every
\* request failed, the overall p(99) when none did; otherwise the failed
\* requests are taken to be the slowest (timeouts), which leaves any value
\* up to the overall p(99).
ExpectedP99(d) ==
    IF d.failed = d.reqs THEN {d.empty}
    ELSE IF d.failed = 0 THEN {d.p99}
    ELSE {x \in DurationValues : x <= d.p99}

\* The metrics object handed to handleSummary.
SummaryData ==
    { [reqs |-> q[1].reqs, failed |-> q[1].failed, p95 |-> q[1].p95,
       p99 |-> q[1].p99, p99e |-> q[2], passes |-> q[1].passes,
       fails |-> q[1].fails, empty |-> q[1].empty] :
      q \in { r \in RequestData \X (DurationValues \cup EmptyValues) :
                  r[2] \in ExpectedP99(r[1]) } }

\* data.metrics.http_req_failed.values.rate
HttpReqFailedRate(d) == RateOf(d.failed, d.reqs, d.empty)

\* data.metrics.checks.values.rate
ChecksRate(d) == RateOf(d.passes, d.passes + d.fails, d.empty)

\* Number of samples of a metric in the summary data.
Samples(d, metric) ==
    IF metric = "checks" THEN d.passes + d.fails ELSE d.reqs

Verdict(b) == IF b THEN "PASS" ELSE "FAIL"

Line(label, metric, b) ==
    [label |-> label, metric |-> metric, verdict |-> Verdict(b)]

\* ------------------------------------------------------------- k6/load.js
\* The PASS/FAIL lines of the summary, in print order.
LoadThresholdStatus(d) ==
    << Line("p(95)", "http_req_duration", JsLt(d.p95, 400)),
       Line("p(99)", "http_req_duration", JsLt(d.p99, 800)),
       Line("p(95) < 400ms", "http_req_duration", JsLt(d.p95, 400)),
       Line("p(99) < 800ms", "http_req_duration", JsLt(d.p99, 800)),
       Line("Fail Rate < 5%", "http_req_failed",
            JsRateLt(HttpReqFailedRate(d), 5, 100)),
       Line("Checks > 95%", "checks", JsRateGt(ChecksRate(d), 95, 100)) >>

\* LoadAllPassed with the p(99) comparison left out.
LoadAllPassedNoP99(d) ==
    /\ JsLt(d.p95, 400)
    /\ JsRateLt(HttpReqFailedRate(d), 5, 100)
    /\ JsRateGt(ChecksRate(d), 95, 100)

LoadAllPassed(d) ==
    /\ JsLt(d.p95, 400)
    /\ JsLt(d.p99, 800)
    /\ JsRateLt(HttpReqFailedRate(d), 5, 100)
    /\ JsRateGt(ChecksRate(d), 95, 100)

LoadOverallStatus(d) ==
    IF LoadAllPassed(d) THEN "ALL THRESHOLDS PASSED"
    ELSE "SOME THRESHOLDS FAILED"

\* ----------------------------------------------------------- k6/stress.js
StressThresholdStatus(d) ==
    << Line("p(95)", "http_req_duration", JsLt(d.p95, 1500)),
       Line("p(95) < 1500ms", "http_req_duration", JsLt(d.p95, 1500)),
       Line("Fail Rate < 20%", "http_req_failed",
            JsRateLt(HttpReqFailedRate(d), 20, 100)) >>

\* StressAllPassed that lets a failure rate of exactly 20% pass.
StressAllPassedInclusive(d) ==
    /\ JsLt(d.p95, 1500)
    /\ ~JsRateGt(HttpReqFailedRate(d), 20, 100) /\ HttpReqFailedRate(d).den # 0

\* StressAllPassed that skips the comparison of a metric without samples.
StressAllPassedSkipEmpty(d) ==
    /\ (d.reqs = 0 \/ JsLt(d.p95, 1500))
    /\ (d.reqs = 0 \/ JsRateLt(HttpReqFailedRate(d), 20, 100))

StressAllPassed(d) ==
    JsLt(d.p95, 1500) /\ JsRateLt(HttpReqFailedRate(d), 20, 100)

StressOverallStatus(d) ==
    IF StressAllPassed(d) THEN "STRESS TEST PASSED"
    ELSE "STRESS TEST FAILED"

\* The insight the stress summary prints for the failure rate.
StressInsight(d) ==
    IF JsRateLt(HttpReqFailedRate(d), 5, 100)
    THEN "System handled 100 VUs with minimal failures (<5%)"
    ELSE IF JsRateLt(HttpReqFailedRate(d), 15, 100)
    THEN "System showing stress signs at 100 VUs (5-15% failures)"
    ELSE IF JsRateLt(HttpReqFailedRate(d), 20, 100)
    THEN "System under significant stress (15-20% failures)"
    ELSE "System exceeded sustainable capacity (>20% failures)"

\* The recommendation the stress summary prints for the failure rate.
StressRecommendation(d) ==
    IF JsRateLt(HttpReqFailedRate(d), 5, 100)
    THEN "System performs well under 100 VU load"
    ELSE IF JsRateLt(HttpReqFailedRate(d), 20, 100)
    THEN "Breaking point identified between 50-100 VUs"
    ELSE "Immediate action required - system unstable at 100 VUs"

\* No insight and no recommendation printed.
NoAdvice == [insight |-> "none", recommendation |-> "none"]

\* ------------------------------------------------------ options.thresholds
\* The threshold expressions each script configures, applied to the summary
\* data.  The smoke threshold on the custom Rate 'errors' is on a metric the
\* summary data of the model does not carry.
SmokeThresholds(d) ==
    [http_req_duration |-> JsLt(d.p95, 800),
     checks |-> JsRateGt(ChecksRate(d), 95, 100)]

LoadThresholds(d) ==
    [http_req_duration |-> JsLt(d.p95, 400),
     http_req_duration_expected |-> JsLt(d.p99e, 800),
     http_req_failed |-> JsRateLt(HttpReqFailedRate(d), 5, 100),
     checks |-> JsRateGt(ChecksRate(d), 95, 100)]

StressThresholds(d) ==
    [http_req_duration |-> JsLt(d.p95, 1500),
     http_req_failed |-> JsRateLt(HttpReqFailedRate(d), 20, 100)]

Thresholds(t, d) ==
    IF t = "smoke" THEN SmokeThresholds(d)
    ELSE IF t = "load" THEN LoadThresholds(d)
    ELSE StressThresholds(d)

\* Every configured threshold passes.
ThresholdsPass(t, d) ==
    \A m \in DOMAIN Thresholds(t, d) : Thresholds(t, d)[m]

\* The p(95) targets of the README table "Performance Thresholds", in ms.
DocumentedP95Target(t) ==
    IF t = "smoke" THEN 1000
    ELSE IF t = "load" THEN 500
    ELSE 2000

\* ------------------------------------------- k6/stress.js, default function
\* The virtual users that run the iteration function side by side.
VUs == {1, 2}

\* The three requests of the http.batch call, in the order of its argument.
BatchCalls == <<"batch_posts", "batch_user", "batch_comments">>

BatchCallSet == {BatchCalls[i] : i \in DOMAIN BatchCalls}

\* A virtual user before its first call: pc is the next call of the script,
\* iter is __ITER, completed and recorded list the calls of the current
\* iteration in the order they completed and in the order their samples were
\* added, last is the outcome of the latest call that returned, responses
\* holds the outcomes of the batch.
IdleVU ==
    [pc |-> "list", iter |-> 0, completed |-> << >>, recorded |-> << >>,
     last |-> "none", responses |-> [c \in BatchCallSet |-> "pending"]]

\* The custom metrics: number of samples of response_time, values of the
\* counters successful_requests and failed_requests, and the samples of the
\* Rate error_rate (how many, and how many of them non-zero).
NoSamples ==
    [response_time |-> 0, successful_requests |-> 0, failed_requests |-> 0,
     error_rate_total |-> 0, error_rate_trues |-> 0]

\* Outcome of one HTTP call: the expected status, or anything else (other
\* status, timeout, connection reset).
Outcomes == {"ok", "fail"}

\* RecordResponse that drops the failure branch.
RecordResponseNoError(m, o) ==
    [m EXCEPT !.response_time = @ + 1,
              !.successful_requests = IF o = "ok" THEN @ + 1 ELSE @]

\* RecordResponse that also feeds error_rate with a 0 on success.
RecordResponseRateOnSuccess(m, o) ==
    [m EXCEPT !.response_time = @ + 1,
              !.successful_requests = IF o = "ok" THEN @ + 1 ELSE @,
              !.failed_requests = IF o = "ok" THEN @ ELSE @ + 1,
              !.error_rate_total = @ + 1,
              !.error_rate_trues = IF o = "ok" THEN @ ELSE @ + 1]

\* responseTime.add(duration), then totalSuccess.add(1) when the status is
\* the expected one, else totalErrors.add(1) and errorRate.add(1).
RecordResponse(m, o) ==
    [m EXCEPT !.response_time = @ + 1,
              !.successful_requests = IF o = "ok" THEN @ + 1 ELSE @,
              !.failed_requests = IF o = "ok" THEN @ ELSE @ + 1,
              !.error_rate_total = IF o = "ok" THEN @ ELSE @ + 1,
              !.error_rate_trues = IF o = "ok" THEN @ ELSE @ + 1]

\* NextCall that posts in every iteration.
NextCallAlwaysCreate(call, iter) ==
    IF call = "list" THEN "post"
    ELSE IF call = "post" THEN "create"
    ELSE "batch"

\* The call that follows a sequential call in the script.
NextCall(call, iter) ==
    IF call = "list" THEN "post"
    ELSE IF call = "post" THEN (IF iter % 3 = 0 THEN "create" ELSE "batch")
    ELSE "batch"

\* The order in which responses.forEach visits the batch: reversed.
ForEachOrderReversed == <<BatchCalls[3], BatchCalls[2], BatchCalls[1]>>

\* The order in which responses.forEach visits the responses of the batch:
\* the order of the request array.
ForEachOrder == BatchCalls

RECURSIVE RecordAll(_, _, _)
\* The forEach loop over the responses, from index i on.
RecordAll(m, resp, i) ==
    IF i > Len(ForEachOrder) THEN m
    ELSE RecordAll(RecordResponse(m, resp[ForEachOrder[i]]), resp, i + 1)

\* The state of a virtual user after one of its sequential calls returned
\* with outcome o and the sample was recorded.
AfterCall(u, call, o) ==
    [pc |-> NextCall(call, u.iter),
     iter |-> u.iter,
     completed |-> IF call = "list" THEN <<call>>
                   ELSE Append(u.completed, call),
     recorded |-> IF call = "list" THEN <<call>>
                  ELSE Append(u.recorded, call),
     last |-> o,
     responses |-> [c \in BatchCallSet |-> "pending"]]

\* http.get(/posts), its sample and its check.
StressGetList(v) ==
    /\ phase = "running" /\ test = "stress"
    /\ vu[v].pc = "list" /\ vu[v].iter < MaxIters
    /\ \E o \in Outcomes :
         /\ vu' = [vu EXCEPT ![v] = AfterCall(vu[v], "list", o)]
         /\ metrics' = RecordResponse(metrics, o)
    /\ UNCHANGED <<test, phase, data, lines, overall, advice, builtin, ramp,
                   pipe>>

\* http.get(/posts/id), its sample and its check.
StressGetPost(v) ==
    /\ phase = "running" /\ test = "stress"
    /\ vu[v].pc = "post"
    /\ \E o \in Outcomes :
         /\ vu' = [vu EXCEPT ![v] = AfterCall(vu[v], "post", o)]
         /\ metrics' = RecordResponse(metrics, o)
    /\ UNCHANGED <<test, phase, data, lines, overall, advice, builtin, ramp,
                   pipe>>

\* http.post(/posts) of every third iteration, its sample and its check.
StressCreatePost(v) ==
    /\ phase = "running" /\ test = "stress"
    /\ vu[v].pc = "create"
    /\ \E o \in Outcomes :
         /\ vu' = [vu EXCEPT ![v] = AfterCall(vu[v], "create", o)]
         /\ metrics' = RecordResponse(metrics, o)
    /\ UNCHANGED <<test, phase, data, lines, overall, advice, builtin, ramp,
                   pipe>>

\* One request of the batch returns; the three are in flight together and
\* return in any order.
StressBatchComplete(v) ==
    /\ phase = "running" /\ test = "stress"
    /\ vu[v].pc = "batch"
    /\ \E c \in BatchCallSet, o \in Outcomes :
         /\ vu[v].responses[c] = "pending"
         /\ vu' = [vu EXCEPT ![v].responses[c] = o,
                             ![v].last = o,
                             ![v].completed = Append(@, c)]
    /\ UNCHANGED <<test, phase, data, lines, overall, metrics, advice,
                   builtin, ramp, pipe>>

\* http.batch has returned: responses.forEach records every response, and
\* the iteration ends.
StressBatchForEach(v) ==
    /\ phase = "running" /\ test = "stress"
    /\ vu[v].pc = "batch"
    /\ \A c \in BatchCallSet : vu[v].responses[c] # "pending"
    /\ metrics' = RecordAll(metrics, vu[v].responses, 1)
    /\ vu' = [vu EXCEPT ![v].recorded = @ \o ForEachOrder,
                        ![v].last = "none",
                        ![v].responses = [c \in BatchCallSet |-> "pending"],
                        ![v].iter = @ + 1,
                        ![v].pc = IF vu[v].iter + 1 < MaxIters
                                  THEN "list" ELSE "done"]
    /\ UNCHANGED <<test, phase, data, lines, overall, advice, builtin, ramp,
                   pipe>>

IterNext ==
    \/ \E v \in VUs : StressGetList(v)
    \/ \E v \in VUs : StressGetPost(v)
    \/ \E v \in VUs : StressCreatePost(v)
    \/ \E v \in VUs : StressBatchComplete(v)
    \/ \E v \in VUs : StressBatchForEach(v)

\* -------------------------------------------------- k6 built-in metrics
\* The first call of the default function of a script.
FirstCall(t) == IF t = "load" THEN "browse" ELSE "list"

\* The built-in metrics before the first request: pc is the next call of
\* the script and iter the iteration of the one virtual user that runs it,
\* reqs is http_reqs.count, failed the number of non-zero samples of
\* http_req_failed, passes and fails the counts of checks, errors_total and
\* errors_trues the samples of the custom Rate 'errors' of smoke.js.
NoRequests(t) ==
    [pc |-> FirstCall(t), iter |-> 0, reqs |-> 0, failed |-> 0,
     passes |-> 0, fails |-> 0, errors_total |-> 0, errors_trues |-> 0,
     last |-> [status |-> "none", body |-> FALSE, fast |-> FALSE]]

\* What the scripts look at in a response.  status: "expected" is the status
\* the check of the call names (200, or 201 for the POST), "success" another
\* status that is no failure at HTTP level, "error" a 4xx or 5xx status or no
\* response; body: the body is the JSON the check looks for; fast:
\* timings.duration is below 400 ms.
Responses ==
    [status : {"expected", "success", "error"}, body : BOOLEAN,
     fast : BOOLEAN]

\* HttpRequest that counts every response with an unexpected status as a
\* failed request.
HttpRequestStrict(m, r) ==
    [m EXCEPT !.reqs = @ + 1,
              !.failed = IF r.status # "expected" THEN @ + 1 ELSE @,
              !.last = r]

\* One http.get or http.post: http_reqs grows by one and http_req_failed
\* gets a sample, non-zero for a failed request.
HttpRequest(m, r) ==
    [m EXCEPT !.reqs = @ + 1,
              !.failed = IF r.status = "error" THEN @ + 1 ELSE @,
              !.last = r]

\* The predicates check() is given for a call of smoke.js, evaluated.
SmokeChecks(r) == << r.status = "expected", r.body, r.fast >>

\* The predicates check() is given for a call of load.js, evaluated.
LoadChecks(call, r) ==
    IF call = "comments" THEN << r.status = "expected" >>
    ELSE << r.status = "expected", r.body >>

\* How many of the outcomes are b.
CountOf(outcomes, b) ==
    Cardinality({i \in DOMAIN outcomes : outcomes[i] = b})

\* check(): every predicate adds one result to checks; the call returns
\* whether all of them hold.
Check(m, outcomes) ==
    [m EXCEPT !.passes = @ + CountOf(outcomes, TRUE),
              !.fails = @ + CountOf(outcomes, FALSE)]

CheckPassed(outcomes) == CountOf(outcomes, FALSE) = 0

\* errorRate.add(!passed) on the Rate 'errors' of smoke.js.
ErrorRateAdd(m, passed) ==
    [m EXCEPT !.errors_total = @ + 1,
              !.errors_trues = IF passed THEN @ ELSE @ + 1]

\* The call after a call of smoke.js; the third ends the iteration.
SmokeNextCall(call) ==
    IF call = "list" THEN "post"
    ELSE IF call = "post" THEN "create"
    ELSE "list"

\* The calls that may follow a call of load.js: the POST is made when
\* Math.random() < 0.2; the comments call ends the iteration.
LoadNextCalls(call) ==
    IF call = "browse" THEN {"details"}
    ELSE IF call = "details" THEN {"create", "comments"}
    ELSE IF call = "create" THEN {"comments"}
    ELSE {"browse"}

\* One call of smoke.js with its check and its errorRate.add.
SmokeRequest ==
    /\ test = "smoke"
    /\ builtin.iter < MaxIters
    /\ \E r \in Responses :
           LET checked == Check(HttpRequest(builtin, r), SmokeChecks(r))
               added == ErrorRateAdd(checked, CheckPassed(SmokeChecks(r)))
               next == SmokeNextCall(builtin.pc)
           IN builtin' = [added EXCEPT
                             !.pc = next,
                             !.iter = IF next = "list" THEN @ + 1 ELSE @]
    /\ UNCHANGED <<test, phase, data, lines, overall, advice, vu, metrics,
                   ramp, pipe>>

\* One call of load.js with its check.
LoadRequest ==
    /\ test = "load"
    /\ builtin.iter < MaxIters
    /\ \E r \in {x \in Responses : x.fast} :
       \E next \in LoadNextCalls(builtin.pc) :
           LET checked ==
                   Check(HttpRequest(builtin, r), LoadChecks(builtin.pc, r))
           IN builtin' = [checked EXCEPT
                             !.pc = next,
                             !.iter = IF next = "browse" THEN @ + 1 ELSE @]
    /\ UNCHANGED <<test, phase, data, lines, overall, advice, vu, metrics,
                   ramp, pipe>>

CheckNext ==
    \/ SmokeRequest
    \/ LoadRequest

\* ---------------------------------------------------------- options.stages
\* Number of virtual users a staged run starts from.
StartVUs == 1

\* A staged run at its start: seconds elapsed, target number of virtual
\* users, and the largest target so far.
RampStart == [clock |-> 0, target |-> StartVUs, peak |-> StartVUs]

\* A duration string of k6, as its number and its unit: '2m' is 2 and "m".
Seconds(d) == IF d.unit = "m" THEN d.n * 60 ELSE d.n

Stage(n, unit, target) ==
    [duration |-> [n |-> n, unit |-> unit], target |-> target]

\* options.stages of k6/load.js.
LoadStages ==
    << Stage(1, "m", 10), Stage(3, "m", 10), Stage(1, "m", 20),
       Stage(1, "m", 0) >>

\* StressStages without the ramp down.
StressStagesNoRecovery ==
    << Stage(2, "m", 20), Stage(2, "m", 50), Stage(2, "m", 50),
       Stage(2, "m", 100) >>

\* options.stages of k6/stress.js.
StressStages ==
    << Stage(2, "m", 20), Stage(2, "m", 50), Stage(2, "m", 50),
       Stage(2, "m", 100), Stage(2, "m", 0) >>

Stages(t) == IF t = "load" THEN LoadStages ELSE StressStages

RECURSIVE TotalSeconds(_)
\* Sum of the stage durations.
TotalSeconds(stages) ==
    IF stages = << >> THEN 0
    ELSE Seconds(Head(stages).duration) + TotalSeconds(Tail(stages))

\* The target between two stage ends, e seconds into a stage of d seconds:
\* on the straight line from one to the other, as a whole number.
Interpolate(from, to, e, d) == from + ((to - from) * e) \div d

RECURSIVE TargetAt(_, _, _)
\* Target number of virtual users t seconds into the stages, coming from
\* the target 'from'.
TargetAt(stages, from, t) ==
    IF stages = << >> THEN from
    ELSE LET d == Seconds(Head(stages).duration)
             to == Head(stages).target
         IN IF t < d THEN Interpolate(from, to, t, d)
            ELSE TargetAt(Tail(stages), to, t - d)

\* One second of a staged run passes.
StageTick ==
    /\ test \in {"load", "stress"}
    /\ ramp.clock < TotalSeconds(Stages(test))
    /\ LET target == TargetAt(Stages(test), StartVUs, ramp.clock + 1)
       IN ramp' = [clock |-> ramp.clock + 1, target |-> target,
                   peak |-> IF target > ramp.peak THEN target ELSE ramp.peak]
    /\ UNCHANGED <<test, phase, data, lines, overall, advice, vu, metrics,
                   builtin, pipe>>

StageNext == StageTick

\* The totals and peaks the header comments of the scripts state.
DocumentedMinutes(t) == IF t = "load" THEN 6 ELSE 10

DocumentedPeak(t) == IF t = "load" THEN 20 ELSE 100

\* ------------------------------------------------------- run-all-tests.sh
\* The pipeline script not running: steps started, exit codes of the steps
\* that ended, whether the success message was printed, and the exit code of
\* the script.
NoPipe ==
    [started |-> << >>, codes |-> << >>, message |-> FALSE, exit |-> "none"]

\* The steps of the script, in the order it runs them.
Steps == <<"smoke", "load", "stress", "zap">>

\* Exit codes of a docker run: zero and two of the others.
ExitCodes == {0, 1, 2}

\* `command || exit 1` that goes on whatever the exit code.
ProceedsAlways(code) == TRUE

\* `command || exit 1`: the script goes on only after exit code 0.
Proceeds(code) == code = 0

\* The step that runs, or "none" between two steps.
Running(p) ==
    IF Len(p.started) > Len(p.codes) THEN p.started[Len(p.started)]
    ELSE "none"

\* ------------------------------------------------------------------ state
\* The summary data before the run has produced any.
NoData ==
    [reqs |-> 0, failed |-> 0, p95 |-> 0, p99 |-> 0, p99e |-> 0,
     passes |-> 0, fails |-> 0, empty |-> 0]

\* A script at the start of its run.
InitRun ==
    /\ test \in Tests
    /\ phase = "running"
    /\ data = NoData
    /\ lines = << >>
    /\ overall = "none"
    /\ advice = NoAdvice
    /\ vu = [v \in VUs |-> IdleVU]
    /\ metrics = NoSamples
    /\ builtin = NoRequests(test)
    /\ ramp = RampStart

\* A script run on its own.
Init == InitRun /\ pipe = NoPipe

\* The run is over and k6 calls handleSummary(data).
EndOfTest ==
    /\ phase = "running"
    /\ \E d \in SummaryData : data' = d
    /\ phase' = "ended"
    /\ UNCHANGED <<test, lines, overall, vu, metrics, advice, builtin, ramp,
                   pipe>>

\* smoke.js handleSummary: prints figures, no verdict and no status.
SmokeHandleSummary ==
    /\ phase = "ended" /\ test = "smoke"
    /\ lines' = << >>
    /\ overall' = "none"
    /\ phase' = "summarised"
    /\ UNCHANGED <<test, data, vu, metrics, advice, builtin, ramp, pipe>>

LoadHandleSummary ==
    /\ phase = "ended" /\ test = "load"
    /\ lines' = LoadThresholdStatus(data)
    /\ overall' = LoadOverallStatus(data)
    /\ phase' = "summarised"
    /\ UNCHANGED <<test, data, vu, metrics, advice, builtin, ramp, pipe>>

StressHandleSummary ==
    /\ phase = "ended" /\ test = "stress"
    /\ lines' = StressThresholdStatus(data)
    /\ overall' = StressOverallStatus(data)
    /\ advice' = [insight |-> StressInsight(data),
                  recommendation |-> StressRecommendation(data)]
    /\ phase' = "summarised"
    /\ UNCHANGED <<test, data, vu, metrics, builtin, ramp, pipe>>

\* k6 exits after the summary, with a non-zero code when a threshold is
\* breached or for any other failure; --rm removes the container.
K6Exit ==
    /\ Running(pipe) = test
    /\ phase = "summarised"
    /\ \E code \in ExitCodes :
           /\ code = 0 => ThresholdsPass(test, data)
           /\ pipe' = [pipe EXCEPT !.codes = Append(@, code)]
    /\ phase' = "exited"
    /\ data' = NoData
    /\ lines' = << >>
    /\ overall' = "none"
    /\ advice' = NoAdvice
    /\ UNCHANGED <<test, vu, metrics, builtin, ramp>>

\* The ZAP baseline scan exits.
ZapExit ==
    /\ Running(pipe) = "zap"
    /\ \E code \in ExitCodes :
           pipe' = [pipe EXCEPT !.codes = Append(@, code)]
    /\ UNCHANGED <<test, phase, data, lines, overall, advice, vu, metrics,
                   builtin, ramp>>

\* The script goes on to its next docker run.
PipeNextStep ==
    /\ pipe.exit = "none" /\ Running(pipe) = "none"
    /\ Len(pipe.started) < Len(Steps)
    /\ Proceeds(pipe.codes[Len(pipe.codes)])
    /\ LET step == Steps[Len(pipe.started) + 1]
       IN /\ pipe' = [pipe EXCEPT !.started = Append(@, step)]
          /\ IF step \in Tests
             THEN test' = step /\ phase' = "running"
             ELSE UNCHANGED <<test, phase>>
    /\ UNCHANGED <<data, lines, overall, advice, vu, metrics, builtin, ramp>>

\* `|| exit 1` after a docker run that failed.
PipeExit ==
    /\ pipe.exit = "none" /\ Running(pipe) = "none"
    /\ ~Proceeds(pipe.codes[Len(pipe.codes)])
    /\ pipe' = [pipe EXCEPT !.exit = "1"]
    /\ UNCHANGED <<test, phase, data, lines, overall, advice, vu, metrics,
                   builtin, ramp>>

\* The last lines of the script: the success message.
PipeSuccess ==
    /\ pipe.exit = "none" /\ Running(pipe) = "none"
    /\ Len(pipe.started) = Len(Steps)
    /\ Proceeds(pipe.codes[Len(pipe.codes)])
    /\ pipe' = [pipe EXCEPT !.message = TRUE, !.exit = "0"]
    /\ UNCHANGED <<test, phase, data, lines, overall, advice, vu, metrics,
                   builtin, ramp>>

PipeNext ==
    \/ EndOfTest
    \/ SmokeHandleSummary
    \/ LoadHandleSummary
    \/ StressHandleSummary
    \/ K6Exit
    \/ ZapExit
    \/ PipeNextStep
    \/ PipeExit
    \/ PipeSuccess

Next ==
    \/ EndOfTest
    \/ SmokeHandleSummary
    \/ LoadHandleSummary
    \/ StressHandleSummary

Spec == Init /\ [][Next]_vars

\* run-all-tests.sh, at its first docker run.
PipeInit ==
    InitRun /\ test = "smoke"
            /\ pipe = [NoPipe EXCEPT !.started = <<Steps[1]>>]

PipeSpec == PipeInit /\ [][PipeNext]_vars

\* The smoke and the load script while one virtual user iterates.
CheckInit == Init /\ test \in {"smoke", "load"}

CheckSpec == CheckInit /\ [][CheckNext]_vars

\* The load and the stress script while their stages run.
StageInit == Init /\ test \in {"load", "stress"}

StageSpec == StageInit /\ [][StageNext]_vars

\* The stress script while its virtual users iterate.
IterInit == Init /\ test = "stress"

IterSpec == IterInit /\ [][IterNext]_vars

TypeOK ==
    /\ test \in Tests
    /\ phase \in {"running", "ended", "summarised", "exited"}
    /\ overall \in {"none", "ALL THRESHOLDS PASSED", "SOME THRESHOLDS FAILED",
                    "STRESS TEST PASSED", "STRESS TEST FAILED"}

\* ----------------------------------------------------------------- claims
PassedStatus == {"ALL THRESHOLDS PASSED", "STRESS TEST PASSED"}

FailedStatus == {"SOME THRESHOLDS FAILED", "STRESS TEST FAILED"}

AllLinesPass == \A i \in DOMAIN lines : lines[i].verdict = "PASS"

\* The lines on metrics other than m all say PASS.
OtherLinesPass(m) ==
    \A j \in DOMAIN lines : lines[j].metric # m => lines[j].verdict = "PASS"

BatchCount(v, o) == Cardinality({c \in BatchCallSet : vu[v].responses[c] = o})

\* C15: in the stress script a failed call never stops the worker or the
\* run.  A failed sequential call adds exactly one to failed_requests (and
\* one error_rate sample, one response_time sample, nothing to
\* successful_requests), and the worker goes on to the next call of the same
\* iteration.  A failed batch request leaves the worker waiting for the rest
\* of the batch; the forEach loop then adds one to failed_requests per failed
\* response and the worker goes on to its next iteration.  The run stays in
\* its running phase throughout.
C15_FailedCallContinues ==
    [][\A v \in VUs :
        /\ (vu[v].pc \in {"list", "post", "create"} /\ vu'[v] # vu[v]
              /\ vu'[v].last = "fail") =>
            /\ metrics'.failed_requests = metrics.failed_requests + 1
            /\ metrics'.error_rate_total = metrics.error_rate_total + 1
            /\ metrics'.response_time = metrics.response_time + 1
            /\ metrics'.successful_requests = metrics.successful_requests
            /\ vu'[v].iter = vu[v].iter
            /\ vu[v].pc = "list" => vu'[v].pc = "post"
            /\ vu[v].pc = "post" => vu'[v].pc \in {"create", "batch"}
            /\ vu[v].pc = "create" => vu'[v].pc = "batch"
            /\ phase' = "running"
        /\ (vu[v].pc = "batch" /\ vu'[v].pc = "batch" /\ vu'[v] # vu[v]) =>
            /\ vu'[v].iter = vu[v].iter
            /\ metrics' = metrics
            /\ phase' = "running"
        /\ (vu[v].pc = "batch" /\ vu'[v].pc # "batch") =>
            /\ metrics'.failed_requests =
                   metrics.failed_requests + BatchCount(v, "fail")
            /\ metrics'.successful_requests =
                   metrics.successful_requests + BatchCount(v, "ok")
            /\ metrics'.response_time = metrics.response_time + 3
            /\ vu'[v].iter = vu[v].iter + 1
            /\ vu'[v].pc \in {"list", "done"}
            /\ vu'[v].pc = "done" => vu'[v].iter = MaxIters
            /\ phase' = "running"
    ]_vars

\* A worker whose GET /posts has just failed: the failure is counted and the
\* worker stands at the next call of the same iteration, the run running.
C15_Witness ==
    \E v \in VUs :
        /\ vu[v].pc = "post" /\ vu[v].last = "fail"
        /\ metrics.failed_requests >= 1
        /\ phase = "running"

IsPrefix(a, b) == Len(a) <= Len(b) /\ SubSeq(b, 1, Len(a)) = a

SeqSet(a) == {a[i] : i \in DOMAIN a}

IsBatchCall(c) == c \in {"batch_posts", "batch_user", "batch_comments"}

IsSequentialCall(c) == ~IsBatchCall(c)

\* The iteration the logs of virtual user v belong to.
LogIter(v) ==
    IF vu[v].pc \in {"list", "done"} THEN vu[v].iter - 1 ELSE vu[v].iter

\* The calls of iteration i in the order the script names them.
ScriptOrder(i) ==
    IF i % 3 = 0
    THEN <<"list", "post", "create", "batch_posts", "batch_user",
           "batch_comments">>
    ELSE <<"list", "post", "batch_posts", "batch_user", "batch_comments">>

\* C19 as stated: for every worker, in every interleaving, the samples of
\* its current iteration are recorded in the order in which its calls
\* completed.
C19_RecordedInCompletionOrder ==
    \A v \in VUs : IsPrefix(vu[v].recorded, vu[v].completed)

\* C19 as amended: for every worker, in every interleaving, the samples of
\* its current iteration are recorded in the order the script names the
\* calls, each only after its call completed; for the sequential calls this
\* is the order in which they completed, and the three samples of a batch
\* are recorded in the order of the request array.
C19_RecordedInScriptOrder ==
    \A v \in VUs :
        /\ IsPrefix(vu[v].recorded, ScriptOrder(LogIter(v)))
        /\ SeqSet(vu[v].recorded) \subseteq SeqSet(vu[v].completed)
        /\ SelectSeq(vu[v].recorded, IsSequentialCall)
               = SelectSeq(vu[v].completed, IsSequentialCall)

\* A worker that has recorded a whole iteration whose batch requests
\* completed in another order than the request array, while the other
\* worker has recorded samples too.
C19_Witness ==
    \E v \in VUs, w \in VUs :
        /\ v # w
        /\ Len(vu[v].recorded) >= 5
        /\ SeqSet(vu[v].recorded) = SeqSet(vu[v].completed)
        /\ vu[v].recorded # vu[v].completed
        /\ Len(vu[w].recorded) > 0

\* Number of responses of an iteration with the given __ITER.
ResponsesOfIteration(i) == IF i % 3 = 0 THEN 6 ELSE 5

RECURSIVE ResponsesOfIterations(_)
\* Number of responses of the iterations 0 .. n - 1.
ResponsesOfIterations(n) ==
    IF n <= 0 THEN 0
    ELSE ResponsesOfIterations(n - 1) + ResponsesOfIteration(n - 1)

RECURSIVE SumOver(_, _)
\* Sum of f[v] over the virtual users of S.
SumOver(f, S) ==
    IF S = {} THEN 0
    ELSE LET v == CHOOSE x \in S : TRUE IN f[v] + SumOver(f, S \ {v})

\* Every virtual user stands between two iterations.
AllBetweenIterations == \A v \in VUs : vu[v].pc \in {"list", "done"}

\* C28: in the stress script every response has added one response_time
\* sample and one to exactly one of successful_requests and failed_requests,
\* so the two counters sum to the number of response_time samples; and when
\* every virtual user stands between iterations, that number is 6 for each
\* completed iteration whose __ITER is a multiple of 3 plus 5 for each other.
C28_CountersMatchSamples ==
    /\ metrics.successful_requests + metrics.failed_requests
           = metrics.response_time
    /\ metrics.response_time
           = SumOver([v \in VUs |-> Len(vu[v].recorded)],
                     {v \in VUs : vu[v].pc \notin {"list", "done"}})
             + SumOver([v \in VUs |-> ResponsesOfIterations(vu[v].iter)], VUs)
    /\ \A v \in VUs :
           (vu[v].pc \in {"list", "done"} /\ vu[v].iter > 0) =>
               Len(vu[v].recorded) = ResponsesOfIteration(vu[v].iter - 1)

\* Both virtual users have completed an iteration with a POST and one
\* without, with successes and failures among the 22 responses.
C28_Witness ==
    /\ \A v \in VUs : vu[v].pc \in {"list", "done"} /\ vu[v].iter = 2
    /\ metrics.response_time = 22
    /\ metrics.successful_requests > 0 /\ metrics.failed_requests > 0

\* C29: in the stress script error_rate gets a sample only for a failed
\* response and that sample is 1: its samples are as many as failed_requests
\* and all are non-zero, so its rate is 1 as soon as it has a sample, also
\* when successful responses were counted.
C29_ErrorRateOnlyFailures ==
    /\ metrics.error_rate_total = metrics.failed_requests
    /\ metrics.error_rate_trues = metrics.error_rate_total

\* One failure among several responses: error_rate has the single sample 1,
\* while failed / (successful + failed) is below 1.
C29_Witness ==
    /\ metrics.failed_requests = 1 /\ metrics.successful_requests >= 3
    /\ metrics.error_rate_total = 1 /\ metrics.error_rate_trues = 1

\* C24: the response-time threshold of a test passes exactly when the p(95)
\* of http_req_duration is below the documented target of that test: 1000 ms
\* for smoke, 500 ms for load, 2000 ms for stress.
C24_P95ThresholdIsDocumentedTarget ==
    (phase = "ended" /\ data.reqs > 0) =>
        (Thresholds(test, data).http_req_duration
            <=> JsLt(data.p95, DocumentedP95Target(test)))

\* C27: the load summary reports ALL THRESHOLDS PASSED exactly when the four
\* thresholds configured in options.thresholds pass, the p(99) one being the
\* one on http_req_duration{expected_response:true}.
C27_LoadStatusIsConfiguredThresholds ==
    (phase = "summarised" /\ test = "load") =>
        (overall = "ALL THRESHOLDS PASSED" <=> ThresholdsPass("load", data))

\* data.metrics.http_req_failed.values.rate of the summarised run.
FailureRate == HttpReqFailedRate(data)

C26_StageProfile ==
    /\ TotalSeconds(Stages(test)) = DocumentedMinutes(test) * 60
    /\ ramp.target >= 0 /\ ramp.target <= DocumentedPeak(test)
    /\ ramp.peak <= DocumentedPeak(test)
    /\ ramp.clock = TotalSeconds(Stages(test)) =>
           ramp.target = 0 /\ ramp.peak = DocumentedPeak(test)

\* The stress run at the end of its fourth stage, at its peak of 100.
C26_Witness ==
    /\ test = "stress" /\ ramp.clock = 480
    /\ ramp.target = 100 /\ ramp.peak = 100

RequestStep == builtin'.reqs = builtin.reqs + 1

\* Some predicate of the check of the call is false for the response r:
\* the status one, the body one (the comments call of load.js has none) or
\* the response-time one (smoke.js only).
CheckFalse(call, r) ==
    \/ r.status # "expected"
    \/ call # "comments" /\ ~r.body
    \/ test = "smoke" /\ ~r.fast

\* The rate n1/d1 is below the rate n2/d2.
RateBelow(n1, d1, n2, d2) == d1 > 0 /\ d2 > 0 /\ n1 * d2 < n2 * d1

\* The rates n1/d1 and n2/d2 are the same number.
RateSame(n1, d1, n2, d2) == d1 > 0 /\ d2 > 0 /\ n1 * d2 = n2 * d1

====
